---- MODULE Spec2Model ----
(***************************************************************************)
(* The in-page confirmation gate of the browser extension: the attachment  *)
(* of three Proxy wrappers to window.ethereum (request, send, sendAsync),  *)
(* the classification of intercepted calls, the round trip to the          *)
(* confirmation window and the resolution of the intercepted call.         *)
(***************************************************************************)
EXTENDS Integers, Sequences, FiniteSets, Bags, TLC

VARIABLES
    ethereum,          \* window.ethereum: 0 when absent, else the id of the provider object
    shape,             \* shape[o]: the entry points provider object o has
    depth,             \* depth[o][e]: how many Proxy layers wrap entry point e of object o
    overrideInterval,  \* TRUE while the setInterval timer is armed
    loaded,            \* TRUE once the script's top level (lines 190-191) has run
    escaped,           \* number of errors thrown out of overrideWindowEthereum
    attempts,          \* number of runs of overrideWindowEthereum that found a provider
    installs,          \* number of runs that reached lines 185-187
    ticked,            \* TRUE once overrideWindowEthereum has run from the interval timer
    calls,             \* calls[i]: the i-th call the page makes through a wrapped entry point
    sent,              \* the requests written to the stream, sent[id] has identifier id
    pending,           \* the identifiers awaiting a response, each with its call
    popup,             \* popup[id]: the confirmation window opened for request id
    msgs               \* bag of {id, response} messages sent by confirmation windows, not yet delivered

vars == <<ethereum, shape, depth, overrideInterval, loaded, escaped, attempts, installs,
          ticked, calls, sent, pending, popup, msgs>>

attachVars == <<ethereum, shape, depth, overrideInterval, loaded, escaped, attempts, installs,
                ticked>>
channelVars == <<sent, pending, popup, msgs>>

----------------------------------------------------------------------------
(* Bounds *)

MaxCalls == 2    \* calls the page makes
MaxObjs == 2     \* provider objects the environment ever assigns to window.ethereum
MaxClicks == 2   \* button clicks the user makes, over all confirmation windows

----------------------------------------------------------------------------
(* Values *)

Entries == {"request", "send", "sendAsync"}

Rep(c, n) == [k \in 1..n |-> c]

AddressLength == 40

Str(s) == [t |-> "str", s |-> s]
Undefined == [t |-> "undef", s |-> <<>>]
TxObj == [t |-> "obj", s |-> <<>>]

Address == Str(<<"0", "x">> \o Rep("a", AddressLength))
Message == Str(<<"0", "x", "d", "e", "a", "d">>)
Message40 == Str(<<"0", "x">> \o Rep("b", AddressLength))
GoodTypedData == Str(<<"{", "}">>)
BadTypedData == Str(<<"{">>)

ObjectString == <<"[", "o", "b", "j", "e", "c", "t", " ", "O", "b", "j", "e", "c", "t", "]">>

\* String(v)
StringOf(v) == IF v.t = "str" THEN v.s ELSE IF v.t = "obj" THEN ObjectString
               ELSE <<"u", "n", "d", "e", "f", "i", "n", "e", "d">>

\* !!v
Truthy(v) == v.t = "obj" \/ (v.t = "str" /\ Len(v.s) > 0)

\* const [a, b] = request?.params ?? []
Param(ps, k) == IF k <= Len(ps) THEN ps[k] ELSE Undefined

\* s.replace(/0x/, ''): removes the first occurrence of "0x", wherever it is
Replace0x(s) ==
    LET hits == {k \in 1..(Len(s) - 1) : s[k] = "0" /\ s[k + 1] = "x"}
    IN  IF hits = {} THEN s
        ELSE LET k == CHOOSE h \in hits : \A g \in hits : h <= g
             IN  SubSeq(s, 1, k - 1) \o SubSeq(s, k + 2, Len(s))

\* JSON.parse(typedDataStr) succeeds
JsonParses(v) == StringOf(v) = <<"{", "}">>

----------------------------------------------------------------------------
(* Provider attachment *)

FullShape == Entries
Shapes == {FullShape} \cup {FullShape \ {e} : e \in Entries}

Objs == 1..Len(shape)

NoDepth == [e \in Entries |-> 0]

\* new Proxy(window.ethereum.<e>, handler) throws when the target is undefined
ProxiesBuilt(o) == \A e \in Entries : e \in shape[o]

\* the timer is left armed
KeepInterval(armed) == armed

\* clearInterval(overrideInterval)
ClearInterval(armed) == FALSE

\* each proxy is assigned as soon as it is built, in the order request, send, sendAsync
OverrideAssignsAsBuilt(armed) ==
    IF ethereum = 0
    THEN /\ overrideInterval' = armed
         /\ UNCHANGED <<depth, escaped, attempts, installs>>
    ELSE LET has == shape[ethereum]
             built == IF "request" \notin has THEN {}
                      ELSE IF "send" \notin has THEN {"request"}
                      ELSE IF "sendAsync" \notin has THEN {"request", "send"}
                      ELSE Entries
         IN  /\ overrideInterval' = ClearInterval(armed)
             /\ attempts' = attempts + 1
             /\ depth' = [depth EXCEPT ![ethereum] =
                            [e \in Entries |-> IF e \in built THEN @[e] + 1 ELSE @[e]]]
             /\ IF built = Entries
                THEN installs' = installs + 1 /\ UNCHANGED escaped
                ELSE escaped' = escaped + 1 /\ UNCHANGED installs

\* the timer is cleared before the provider is looked for
OverrideClearsFirst(armed) ==
    /\ overrideInterval' = FALSE
    /\ IF ethereum = 0
       THEN UNCHANGED <<depth, escaped, attempts, installs>>
       ELSE /\ attempts' = attempts + 1
            /\ IF ProxiesBuilt(ethereum)
               THEN /\ depth' = [depth EXCEPT ![ethereum] = [e \in Entries |-> @[e] + 1]]
                    /\ installs' = installs + 1
                    /\ UNCHANGED escaped
               ELSE /\ escaped' = escaped + 1
                    /\ UNCHANGED <<depth, installs>>

\* the body of overrideWindowEthereum, given the timer's state when it runs
OverrideWindowEthereum(armed) ==
    IF ethereum = 0
    THEN /\ overrideInterval' = armed
         /\ UNCHANGED <<depth, escaped, attempts, installs>>
    ELSE /\ overrideInterval' = ClearInterval(armed)
         /\ attempts' = attempts + 1
         /\ IF ProxiesBuilt(ethereum)
            THEN /\ depth' = [depth EXCEPT ![ethereum] = [e \in Entries |-> @[e] + 1]]
                 /\ installs' = installs + 1
                 /\ UNCHANGED escaped
            ELSE /\ escaped' = escaped + 1
                 /\ UNCHANGED <<depth, installs>>

\* the environment assigns a fresh provider object to window.ethereum
SetWindowEthereum(s) ==
    /\ Len(shape) < MaxObjs
    /\ shape' = Append(shape, s)
    /\ depth' = Append(depth, NoDepth)
    /\ ethereum' = Len(shape) + 1
    /\ UNCHANGED <<overrideInterval, loaded, escaped, attempts, installs, ticked, calls>>
    /\ UNCHANGED channelVars

\* overrideInterval = setInterval(overrideWindowEthereum, 100); overrideWindowEthereum();
Load ==
    /\ ~loaded
    /\ loaded' = TRUE
    /\ OverrideWindowEthereum(TRUE)
    /\ UNCHANGED <<ethereum, shape, ticked, calls>>
    /\ UNCHANGED channelVars

\* one tick of the interval timer
Tick ==
    /\ loaded
    /\ overrideInterval
    /\ OverrideWindowEthereum(overrideInterval)
    /\ ticked' = TRUE
    /\ UNCHANGED <<ethereum, shape, loaded, calls>>
    /\ UNCHANGED channelVars

----------------------------------------------------------------------------
(* Calls *)

SendTransaction == "eth_sendTransaction"
TypedMethods == {"eth_signTypedData_v3", "eth_signTypedData_v4"}
SignMethods == {"eth_sign", "personal_sign"}
OtherMethod == "eth_chainId"

RpcId == 7
ChainIds == {1, 5}

UserDeniedTransaction == "Revoke.cash Confirmation: User denied transaction signature."
UserDeniedMessage == "Revoke.cash Confirmation: User denied message signature."

\* an argument list: form "str" is (method, params), "obj" is (request), "objcb" is
\* (request, callback); id is the request object's id, 0 when it has none
Args(form, method, params, id) ==
    [form |-> form, method |-> method, params |-> params, id |-> id]

NoArgs == Args("none", "", <<>>, 0)

IdleCall ==
    [pc |-> "idle", entry |-> "", args |-> NoArgs, obj |-> 0, weth |-> 0,
     handler |-> "none", hobj |-> 0, hargs |-> NoArgs,
     kind |-> "none", message |-> Undefined, netq |-> 0, chainId |-> 0,
     cid |-> 0, nreq |-> 0, verdict |-> "none", vfrom |-> 0,
     orig |-> <<>>, cb |-> <<>>, result |-> "none", error |-> ""]

\* Reflect.apply(target, thisArg, argumentsList)
ReflectApply(c, fn, o, a) ==
    [c EXCEPT !.pc = "done", !.result = "returned",
              !.orig = Append(@, [fn |-> fn, obj |-> o, args |-> a])]

\* an error raised by handler h before its first suspension: requestHandler is an async
\* function, so its promise fails; sendAsyncHandler throws to its caller
Raise(c, h, err) ==
    [c EXCEPT !.pc = "done", !.error = err,
              !.result = IF h = "request" THEN "rejected" ELSE "threw"]

\* String(first).replace(/0x/, '').length === 40
LooksLikeAddress(v) == Len(Replace0x(StringOf(v))) = AddressLength

\* const message = ... ? second : first
MessageOf(first, second) == IF LooksLikeAddress(first) THEN second ELSE first

\* the arguments are not looked at
ArgsMissingNever(m, ps) == FALSE

\* only the first parameter is looked at
ArgsMissingFirstOnly(m, ps) == ~Truthy(Param(ps, 1))

\* if (!transaction) ... / if (!address || !typedDataStr) ... / if (!first || !second) ...
ArgsMissing(m, ps) ==
    IF m = SendTransaction THEN ~Truthy(Param(ps, 1))
    ELSE ~Truthy(Param(ps, 1)) \/ ~Truthy(Param(ps, 2))

\* requestHandler.apply and sendAsyncHandler.apply, up to the first suspension; h names
\* the handler, o the object whose entry point it wraps and a its argument list
HandlerStart(c0, h, o, a) ==
    LET c == [c0 EXCEPT !.handler = h, !.hobj = o, !.hargs = a]
        m == a.method
        ps == a.params
    IN  IF m = SendTransaction
        THEN IF ArgsMissing(m, ps) THEN ReflectApply(c, h, o, a)
             ELSE [c EXCEPT !.pc = "net", !.kind = "Transaction", !.netq = @ + 1]
        ELSE IF m \in TypedMethods
        THEN IF ArgsMissing(m, ps) THEN ReflectApply(c, h, o, a)
             ELSE IF ~JsonParses(Param(ps, 2)) THEN Raise(c, h, "SyntaxError")
             ELSE [c EXCEPT !.pc = "net", !.kind = "TypedSignature", !.netq = @ + 1]
        ELSE IF m \in SignMethods
        THEN IF ArgsMissing(m, ps) THEN ReflectApply(c, h, o, a)
             ELSE [c EXCEPT !.pc = "tosend", !.kind = "UntypedSignature",
                            !.message = MessageOf(Param(ps, 1), Param(ps, 2))]
        ELSE ReflectApply(c, h, o, a)

\* window.ethereum.<e>(a) as sendHandler calls it: through the wrapper when the current
\* provider object has one, on the object's own function otherwise
ViaWindowEthereum(c, e, a) ==
    IF e \notin shape[ethereum]
    THEN [c EXCEPT !.pc = "done", !.result = "threw", !.error = "TypeError"]
    ELSE IF depth[ethereum][e] > 0 THEN HandlerStart(c, e, ethereum, a)
    ELSE ReflectApply(c, e, ethereum, a)

\* the test for a missing callback is left out
SendHandlerNoCallbackTest(c0, o, a) ==
    LET c == [c0 EXCEPT !.handler = "send", !.hobj = o, !.hargs = a]
    IN  IF a.form = "str"
        THEN ViaWindowEthereum(c, "request", Args("obj", a.method, a.params, 0))
        ELSE ViaWindowEthereum(c, "sendAsync", a)

\* sendHandler.apply
SendHandler(c0, o, a) ==
    LET c == [c0 EXCEPT !.handler = "send", !.hobj = o, !.hargs = a]
    IN  IF a.form = "str"
        THEN ViaWindowEthereum(c, "request", Args("obj", a.method, a.params, 0))
        ELSE IF a.form = "obj" THEN ReflectApply(c, "send", o, a)
        ELSE ViaWindowEthereum(c, "sendAsync", a)

----------------------------------------------------------------------------
(* Correlation channel and confirmation window *)

FreshId == Len(sent) + 1

\* sendAndAwaitResponseFromStream(stream, payload), up to its suspension
SendAndAwaitResponseFromStream(i, c) ==
    LET id == FreshId
    IN  /\ calls' = [calls EXCEPT ![i] = [c EXCEPT !.pc = "wait", !.cid = id, !.nreq = @ + 1]]
        /\ sent' = Append(sent, [id |-> id, type |-> c.kind, chainId |-> c.chainId,
                                 message |-> c.message, call |-> i])
        /\ pending' = pending \cup {[id |-> id, call |-> i]}
        /\ popup' = Append(popup, [open |-> TRUE, awaiting |-> 0, clicks |-> 0])
        /\ UNCHANGED msgs

\* the state after a handler step that leaves call i as c
Continue(i, c) ==
    IF c.pc = "tosend"
    THEN SendAndAwaitResponseFromStream(i, c)
    ELSE /\ calls' = [calls EXCEPT ![i] = c]
         /\ UNCHANGED channelVars

\* the verdict is not looked at
IsOkAlways(response) == TRUE

\* if (isOk)
IsOk(response) == response

\* one message for every kind
RejectMessageSame(kind) == UserDeniedTransaction

RejectMessage(kind) ==
    IF kind = "Transaction" THEN UserDeniedTransaction ELSE UserDeniedMessage

\* the else branch falls through to the forwarding call
RejectFallsThrough(c) ==
    ReflectApply([c EXCEPT !.error = UserDeniedMessage], c.handler, c.hobj, c.hargs)

\* the else branch of the verdict: throw (request) or callback(error, response) (sendAsync)
Reject(c) ==
    LET error == RejectMessage(c.kind)
    IN  IF c.handler = "request"
        THEN [c EXCEPT !.pc = "done", !.result = "rejected", !.error = error]
        ELSE IF c.hargs.form = "objcb"
        THEN [c EXCEPT !.pc = "done", !.result = "returned",
                       !.cb = Append(@, [error |-> error, id |-> c.hargs.id, rerror |-> error])]
        ELSE [c EXCEPT !.pc = "done", !.result = "unhandled", !.error = "TypeError"]

\* the handler's continuation once the round trip has produced response
Resolve(c0, response, from) ==
    LET c == [c0 EXCEPT !.verdict = IF response THEN "approve" ELSE "reject", !.vfrom = from]
    IN  IF IsOk(response) THEN ReflectApply(c, c.handler, c.hobj, c.hargs)
        ELSE Reject(c)

----------------------------------------------------------------------------
(* The page's calls *)

MethodParams ==
    {<<SendTransaction, <<>> >>, <<SendTransaction, <<TxObj>> >>, <<OtherMethod, <<>> >>}
    \cup {<<m, ps>> : m \in TypedMethods,
                      ps \in {<<Address>>, <<Undefined, GoodTypedData>>,
                              <<Address, GoodTypedData>>, <<Address, BadTypedData>>}}
    \cup {<<m, ps>> : m \in SignMethods,
                      ps \in {<<Address>>, <<Undefined, Address>>, <<Address, Message>>,
                              <<Message, Address>>, <<Message40, Address>>}}

Forms == {<<"request", "obj">>, <<"sendAsync", "obj">>, <<"sendAsync", "objcb">>,
          <<"send", "str">>, <<"send", "obj">>, <<"send", "objcb">>}

Input(e, form, m, ps) ==
    [entry |-> e, args |-> Args(form, m, ps, IF form = "str" THEN 0 ELSE RpcId)]

AllInputs == {Input(f[1], f[2], mp[1], mp[2]) : f \in Forms, mp \in MethodParams}

ConcurrentInputs ==
    {Input("request", "obj", SendTransaction, <<TxObj>>),
     Input("sendAsync", "objcb", "personal_sign", <<Message, Address>>)}

\* the page calls entry point inp.entry of a provider object whose entry point is wrapped
PageCall(i, inp) ==
    /\ calls[i].pc = "idle"
    /\ \A j \in 1..(i - 1) : calls[j].pc # "idle"
    /\ \E o \in Objs :
         /\ depth[o][inp.entry] > 0
         /\ LET c == [IdleCall EXCEPT !.entry = inp.entry, !.args = inp.args, !.obj = o,
                                       !.weth = ethereum]
            IN  Continue(i, IF inp.entry = "send" THEN SendHandler(c, o, inp.args)
                               ELSE HandlerStart(c, inp.entry, o, inp.args))
    /\ UNCHANGED attachVars

\* the chainId of the reply is not taken
NetworkReplyUnused(i, ch) ==
    /\ calls[i].pc = "net"
    /\ Continue(i, [calls[i] EXCEPT !.pc = "tosend"])
    /\ UNCHANGED attachVars

\* provider.getNetwork() resolves with chainId ch
NetworkReply(i, ch) ==
    /\ calls[i].pc = "net"
    /\ Continue(i, [calls[i] EXCEPT !.pc = "tosend", !.chainId = ch])
    /\ UNCHANGED attachVars

\* the failure of the query is swallowed and the request is sent without a chainId
NetworkFailIgnored(i) ==
    /\ calls[i].pc = "net"
    /\ Continue(i, [calls[i] EXCEPT !.pc = "tosend", !.error = "NetworkError"])
    /\ UNCHANGED attachVars

\* provider.getNetwork() fails: the request promise fails, the sendAsync chain has no
\* rejection handler
NetworkFail(i) ==
    /\ calls[i].pc = "net"
    /\ calls' = [calls EXCEPT ![i] =
                   [@ EXCEPT !.pc = "done", !.error = "NetworkError",
                             !.result = IF calls[i].handler = "request"
                                        THEN "rejected" ELSE "unhandled"]]
    /\ UNCHANGED attachVars
    /\ UNCHANGED channelVars

\* every window answers with the first identifier
RespondIdFirst(id) == 1

\* the id a confirmation window opened with ?id=<id> puts in its message
RespondId(id) == id

RECURSIVE Clicks(_)
Clicks(k) == IF k = 0 THEN 0 ELSE popup[k].clicks + Clicks(k - 1)

\* respond(response), up to its await: Browser.runtime.sendMessage(undefined, {id, response})
Respond(id, response) ==
    /\ popup[id].open
    /\ Clicks(Len(popup)) < MaxClicks
    /\ msgs' = msgs (+) SetToBag({[id |-> RespondId(id), response |-> response, from |-> id]})
    /\ popup' = [popup EXCEPT ![id].awaiting = @ + 1, ![id].clicks = @ + 1]
    /\ UNCHANGED <<calls, sent, pending>>
    /\ UNCHANGED attachVars

\* respond, after its await: window.close()
RespondClose(id) ==
    /\ popup[id].open
    /\ popup[id].awaiting > 0
    /\ popup' = [popup EXCEPT ![id].open = FALSE, ![id].awaiting = 0]
    /\ UNCHANGED <<calls, sent, pending, msgs>>
    /\ UNCHANGED attachVars

\* the window is closed without a verdict (the Dismiss button, or the user closes it)
CloseWindow(id) ==
    /\ popup[id].open
    /\ popup' = [popup EXCEPT ![id].open = FALSE, ![id].awaiting = 0]
    /\ UNCHANGED <<calls, sent, pending, msgs>>
    /\ UNCHANGED attachVars

\* the pending entries a message with identifier id resolves
Matching(id) == {p \in pending : p.id = id}

\* a message {id, response} reaches the stream listener
Deliver(m) ==
    /\ BagIn(m, msgs)
    /\ msgs' = msgs (-) SetToBag({m})
    /\ IF Matching(m.id) = {}
       THEN UNCHANGED <<calls, pending>>
       ELSE LET p == CHOOSE q \in Matching(m.id) : TRUE
            IN  /\ pending' = pending \ {p}
                /\ calls' = [calls EXCEPT ![p.call] = Resolve(@, m.response, m.from)]
    /\ UNCHANGED <<sent, popup>>
    /\ UNCHANGED attachVars

----------------------------------------------------------------------------
(* Specifications *)

InitAttach ==
    /\ ethereum = 0
    /\ shape = <<>>
    /\ depth = <<>>
    /\ overrideInterval = FALSE
    /\ loaded = FALSE
    /\ escaped = 0
    /\ attempts = 0
    /\ installs = 0
    /\ ticked = FALSE

InitGate ==
    /\ calls = [i \in 1..MaxCalls |-> IdleCall]
    /\ sent = <<>>
    /\ pending = {}
    /\ popup = <<>>
    /\ msgs = EmptyBag

Init == InitAttach /\ InitGate

Attach ==
    \/ \E s \in Shapes : SetWindowEthereum(s)
    \/ Load
    \/ Tick

Gate ==
    \/ \E i \in 1..MaxCalls : \E ch \in ChainIds : NetworkReply(i, ch)
    \/ \E i \in 1..MaxCalls : NetworkFail(i)
    \/ \E id \in 1..Len(popup) : \E r \in BOOLEAN : Respond(id, r)
    \/ \E id \in 1..Len(popup) : RespondClose(id)
    \/ \E id \in 1..Len(popup) : CloseWindow(id)
    \/ \E m \in BagToSet(msgs) : Deliver(m)

\* one call at a time, every input, from the script's load on
Next ==
    \/ Attach
    \/ \E inp \in AllInputs : PageCall(1, inp)
    \/ Gate

Spec == Init /\ [][Next]_vars

FairSpec == Spec /\ WF_vars(Load) /\ WF_vars(Tick)

\* the attachment alone: the handlers never touch its state
SpecAttach == Init /\ [][Attach]_vars /\ WF_vars(Load) /\ WF_vars(Tick)

\* the state once the wrappers are installed on a well-formed provider
InitInstalled ==
    /\ ethereum = 1
    /\ shape = <<FullShape>>
    /\ depth = <<[e \in Entries |-> 1]>>
    /\ overrideInterval = FALSE
    /\ loaded = TRUE
    /\ escaped = 0
    /\ attempts = 1
    /\ installs = 1
    /\ ticked = FALSE
    /\ InitGate

\* several calls in flight at once
NextConcurrent ==
    \/ \E i \in 1..MaxCalls : \E inp \in ConcurrentInputs : PageCall(i, inp)
    \/ Gate

SpecConcurrent == InitInstalled /\ [][NextConcurrent]_vars

----------------------------------------------------------------------------
(* Properties *)

SensitiveMethods == {SendTransaction} \cup TypedMethods \cup SignMethods

\* the required arguments of the classification table are present
HasRequiredArgs(a) ==
    IF a.method = SendTransaction THEN Truthy(Param(a.params, 1))
    ELSE Truthy(Param(a.params, 1)) /\ Truthy(Param(a.params, 2))

Sensitive(a) == a.method \in SensitiveMethods /\ HasRequiredArgs(a)

Made == {i \in 1..MaxCalls : calls[i].pc # "idle"}

\* the requests sent on the channel for call i
RequestsOf(i) == {id \in 1..Len(sent) : sent[id].call = i}

\* call i was handled by the request wrapper or the sendAsync wrapper
Intercepted(i) == calls[i].handler \in {"request", "sendAsync"}

\* C1, as stated: a sensitive call made through any of the three wrapped entry points
\* reaches an original provider function only after an approve verdict for it.
C1_EveryEntryPointGated ==
    \A i \in Made :
        (Sensitive(calls[i].args) /\ calls[i].orig # <<>>) => calls[i].verdict = "approve"

\* C1, amended: a sensitive call handled by the request wrapper or the sendAsync wrapper
\* (called directly or reached through send) reaches the original function only after an
\* approve verdict given for its own request; send called with a request object and no
\* callback is forwarded without a verdict.
C1_InterceptedGated ==
    \A i \in Made :
        /\ (Intercepted(i) /\ Sensitive(calls[i].hargs) /\ calls[i].orig # <<>>) =>
              /\ calls[i].verdict = "approve"
              /\ calls[i].cid \in RequestsOf(i)
              /\ calls[i].vfrom = calls[i].cid
        /\ (calls[i].entry = "send" /\ calls[i].args.form = "obj") =>
              /\ calls[i].orig = <<[fn |-> "send", obj |-> calls[i].obj, args |-> calls[i].args]>>
              /\ calls[i].verdict = "none"

C1_Witness ==
    \E i \in Made :
        /\ calls[i].entry = "send"
        /\ calls[i].handler = "request"
        /\ calls[i].kind = "Transaction"
        /\ calls[i].verdict = "approve"
        /\ calls[i].orig # <<>>

\* the typed-data string of a typed-data signing call parses
Parses(a) == a.method \in TypedMethods => Param(a.params, 2) = GoodTypedData

\* the one original invocation an intercepted call makes when it is forwarded
Forwarded(i) == <<[fn |-> calls[i].handler, obj |-> calls[i].hobj, args |-> calls[i].hargs]>>

\* C2, as stated: a finished sensitive call intercepted by the request or sendAsync wrapper
\* has had exactly one request sent for it, and was forwarded (once, with its arguments)
\* iff its verdict was approve.
C2_ExactlyOneRoundTrip ==
    \A i \in Made :
        (Intercepted(i) /\ Sensitive(calls[i].hargs) /\ Parses(calls[i].hargs)
           /\ calls[i].pc = "done") =>
            /\ Cardinality(RequestsOf(i)) = 1
            /\ (calls[i].orig = Forwarded(i)) <=> (calls[i].verdict = "approve")
            /\ (calls[i].verdict = "reject") => (calls[i].orig = <<>>)

\* C2, amended: at most one request is sent for such a call, exactly one once its
\* network-info query (if it has one) has succeeded and its typed data has parsed; it is
\* forwarded (once, with its arguments) iff an approve verdict was received, and never on
\* a reject verdict or without a verdict.
C2_AtMostOneRoundTrip ==
    \A i \in Made :
        (Intercepted(i) /\ Sensitive(calls[i].hargs)) =>
            /\ Cardinality(RequestsOf(i)) <= 1
            /\ (calls[i].pc = "wait" \/ calls[i].verdict # "none" \/ calls[i].chainId # 0)
                  => Cardinality(RequestsOf(i)) = 1
            /\ (calls[i].kind = "UntypedSignature") => Cardinality(RequestsOf(i)) = 1
            /\ (calls[i].error \in {"NetworkError", "SyntaxError"}) => RequestsOf(i) = {}
            /\ (calls[i].orig = Forwarded(i)) <=> (calls[i].verdict = "approve")
            /\ (calls[i].verdict # "approve") => (calls[i].orig = <<>>)

C2_Witness ==
    /\ \E i \in Made :
         /\ calls[i].handler = "sendAsync"
         /\ calls[i].kind = "TypedSignature"
         /\ calls[i].verdict = "approve"
         /\ calls[i].orig = Forwarded(i)
         /\ Cardinality(RequestsOf(i)) = 1

\* the call's method is outside the table, or its required arguments are missing
NotSensitive(a) == ~Sensitive(a)

\* C3, as stated: a call that is not sensitive invokes the entry point it was made
\* through, once, with its own argument list, and no request is sent for it.
C3_SameEntryPoint ==
    \A i \in Made :
        NotSensitive(calls[i].args) =>
            /\ calls[i].orig = <<[fn |-> calls[i].entry, obj |-> calls[i].obj,
                                  args |-> calls[i].args]>>
            /\ RequestsOf(i) = {}

\* what send does with a call that is not sensitive, given the entry point e of
\* window.ethereum it is routed to and the argument list a it passes
Routed(i, e, a) ==
    IF e \in shape[calls[i].weth]
    THEN calls[i].orig = <<[fn |-> e, obj |-> calls[i].weth, args |-> a]>>
    ELSE calls[i].orig = <<>> /\ calls[i].result = "threw"

\* C3, amended: a call that is not sensitive sends no request; made through request,
\* sendAsync, or send with a request object and no callback, it invokes that same original
\* entry point once with its own argument list; send with a method-name string instead
\* invokes the request entry point of window.ethereum once with the one argument
\* {method, params}, and send with a request object and a callback invokes the sendAsync
\* entry point of window.ethereum once with the same two arguments.
C3_PassThrough ==
    \A i \in Made :
        NotSensitive(calls[i].args) =>
            /\ RequestsOf(i) = {}
            /\ calls[i].pc = "done"
            /\ calls[i].verdict = "none"
            /\ IF calls[i].entry = "send" /\ calls[i].args.form = "str"
               THEN Routed(i, "request", Args("obj", calls[i].args.method,
                                              calls[i].args.params, 0))
               ELSE IF calls[i].entry = "send" /\ calls[i].args.form = "objcb"
               THEN Routed(i, "sendAsync", calls[i].args)
               ELSE /\ calls[i].orig = <<[fn |-> calls[i].entry, obj |-> calls[i].obj,
                                          args |-> calls[i].args]>>
                    /\ calls[i].result = "returned"

C3_Witness ==
    \E i \in Made :
        /\ calls[i].args.method \in TypedMethods
        /\ NotSensitive(calls[i].args)
        /\ calls[i].entry = "send"
        /\ calls[i].args.form = "objcb"
        /\ calls[i].weth = calls[i].obj
        /\ calls[i].orig = <<[fn |-> "sendAsync", obj |-> calls[i].obj, args |-> calls[i].args]>>

\* the messages a step takes off the channel
Delivered == {m \in BagToSet(msgs) : msgs' = msgs (-) SetToBag({m})}

\* C4: with several calls pending under their own identifiers, a step resolves a pending
\* call only by delivering a message that carries that call's identifier and was sent by
\* the window opened for it, applies that message's verdict to it, and leaves every
\* other call as it was.
C4_OwnVerdictOnly ==
    [][\A i \in 1..MaxCalls :
          (calls[i].pc = "wait" /\ calls'[i] # calls[i]) =>
              /\ \E m \in Delivered :
                    /\ m.id = calls[i].cid
                    /\ m.from = calls[i].cid
                    /\ calls'[i].verdict = IF m.response THEN "approve" ELSE "reject"
              /\ \A j \in 1..MaxCalls \ {i} : calls'[j] = calls[j]]_vars

C4_Witness ==
    \E i, j \in Made :
        /\ i < j
        /\ calls[i].pc = "wait"
        /\ calls[j].verdict = "reject"
        /\ calls[i].cid # calls[j].cid
        /\ \E m \in BagToSet(msgs) : m.id = calls[i].cid /\ m.response

\* C5: on a reject verdict the request shape fails its promise and the sendAsync shape
\* calls the caller's callback once with the error and a response carrying the request's
\* id and that error; the message names the transaction signature for a Transaction and
\* the message signature for a TypedSignature or UntypedSignature.
C5_RejectionShape ==
    \A i \in Made :
        calls[i].verdict = "reject" =>
            LET text == IF calls[i].kind = "Transaction"
                        THEN "Revoke.cash Confirmation: User denied transaction signature."
                        ELSE "Revoke.cash Confirmation: User denied message signature."
            IN  /\ calls[i].kind \in {"Transaction", "TypedSignature", "UntypedSignature"}
                /\ calls[i].handler = "request" =>
                      /\ calls[i].result = "rejected"
                      /\ calls[i].error = text
                      /\ calls[i].cb = <<>>
                /\ (calls[i].handler = "sendAsync" /\ calls[i].hargs.form = "objcb") =>
                      calls[i].cb = <<[error |-> text, id |-> calls[i].hargs.id,
                                       rerror |-> text]>>

C5_Witness ==
    \E i \in Made :
        /\ calls[i].verdict = "reject"
        /\ calls[i].handler = "sendAsync"
        /\ calls[i].kind = "TypedSignature"
        /\ Len(calls[i].cb) = 1
        /\ calls[i].cb[1].id = RpcId

\* C6: however often the attachment step runs (at load and from interval ticks) while a
\* provider is present, no entry point is ever wrapped more than one level deep and the
\* wrappers are installed at most once, exactly once when the provider it found has all
\* three entry points.
C6_WrappedOnce ==
    /\ installs <= 1
    /\ \A o \in Objs : \A e \in Entries : depth[o][e] <= 1
    /\ (attempts >= 1 /\ escaped = 0) =>
          /\ installs = 1
          /\ Cardinality({o \in Objs : depth[o] = [e \in Entries |-> 1]}) = 1

C6_Witness ==
    /\ ticked
    /\ installs = 1
    /\ ~overrideInterval
    /\ depth[ethereum] = [e \in Entries |-> 1]

\* C7, as stated: for eth_sign and personal_sign with an address and a message as the two
\* parameters, in either order, the message of the request is the parameter that is not
\* the address.
C7_MessageIsNotAddress ==
    \A id \in 1..Len(sent) :
        sent[id].type = "UntypedSignature" =>
            LET ps == calls[sent[id].call].hargs.params
            IN  /\ (ps[1] = Address /\ ps[2] # Address) => sent[id].message = ps[2]
                /\ (ps[2] = Address /\ ps[1] # Address) => sent[id].message = ps[1]

\* C8, as stated: a typed-data signing call whose typed-data string does not parse raises
\* no error, sends no request and is forwarded with its arguments, in the request shape and
\* the sendAsync shape.
C8_UnparseableForwarded ==
    \A i \in Made :
        (Intercepted(i) /\ calls[i].hargs.method \in TypedMethods
           /\ Param(calls[i].hargs.params, 2) = BadTypedData) =>
            /\ calls[i].error = ""
            /\ RequestsOf(i) = {}
            /\ calls[i].orig = Forwarded(i)

\* C9, as stated: when the attachment step finds a provider on which wrapping fails, no
\* error escapes the step and the periodic poll stays armed.
C9_FailureRetried ==
    attempts > installs => (escaped = 0 /\ overrideInterval)

\* provider object o has replaced a wrapped one and is itself well-formed and unwrapped
FreshReplacement(o) ==
    /\ o <= Len(shape)
    /\ ethereum = o
    /\ installs >= 1
    /\ shape[o] = FullShape
    /\ depth[o] = NoDepth

\* C10, as stated: a well-formed object that replaces the wrapped provider is eventually
\* wrapped, unless it is itself replaced.
C10_Reinstalled ==
    \A o \in 1..MaxObjs :
        FreshReplacement(o) ~> (ethereum # o \/ depth[o] = [e \in Entries |-> 1])

\* provider object o is window.ethereum, well-formed, and the poll is armed
AwaitingAttachment(o) ==
    /\ o <= Len(shape)
    /\ ethereum = o
    /\ loaded
    /\ overrideInterval
    /\ shape[o] = FullShape

\* C11: while no attachment step has found a provider, nothing is wrapped and the poll
\* stays armed; a well-formed provider that appears while the poll is armed and stays
\* window.ethereum is eventually wrapped; and once the wrappers are installed the poll is
\* cancelled and the attachment step never finds a provider again.
C11_AttachWhenProviderAppears ==
    /\ []((loaded /\ attempts = 0) =>
            (overrideInterval /\ installs = 0 /\ \A o \in Objs : depth[o] = NoDepth))
    /\ \A o \in 1..MaxObjs :
          AwaitingAttachment(o) ~> (ethereum # o \/ depth[o] = [e \in Entries |-> 1])
    /\ [][installs >= 1 => (/\ ~overrideInterval'
                         /\ attempts' = attempts
                         /\ \A o \in Objs : depth'[o] = depth[o])]_vars

C11_Witness ==
    /\ ticked
    /\ attempts = 1
    /\ escaped = 0
    /\ ethereum = 1
    /\ ~overrideInterval
    /\ \A e \in Entries : depth[1][e] = 1

SendCalls == {i \in Made : calls[i].entry = "send"}

\* the request object send builds from a method-name string and its params
AsRequest(a) == Args("obj", a.method, a.params, 0)

\* send called with a request object and no callback: straight to the original send
SendForwardedUntouched(i) ==
    calls[i].args.form = "obj" =>
        /\ calls[i].orig = <<[fn |-> "send", obj |-> calls[i].obj, args |-> calls[i].args]>>
        /\ calls[i].handler = "send"
        /\ calls[i].kind = "none"
        /\ calls[i].netq = 0
        /\ RequestsOf(i) = {}

C13_MissingArgsForwarded ==
    \A i \in Made :
        (Intercepted(i) /\ calls[i].hargs.method \in SensitiveMethods
           /\ ~HasRequiredArgs(calls[i].hargs)) =>
            /\ calls[i].orig = Forwarded(i)
            /\ calls[i].result = "returned"
            /\ calls[i].error = ""
            /\ calls[i].kind = "none"
            /\ calls[i].netq = 0
            /\ calls[i].verdict = "none"
            /\ RequestsOf(i) = {}

C13_Witness ==
    \E i \in Made :
        /\ calls[i].entry = "sendAsync"
        /\ calls[i].hargs.method \in TypedMethods
        /\ Param(calls[i].hargs.params, 1) = Undefined
        /\ Param(calls[i].hargs.params, 2) = GoodTypedData
        /\ calls[i].orig = Forwarded(i)

\* C14, as stated: the confirmation window opened for one request identifier sends at most
\* one verdict message with that identifier, whatever the user clicks before it closes.
C14_OneVerdictPerId ==
    \A id \in 1..Len(popup) : popup[id].clicks <= 1

\* call i waits for a response that cannot come any more: its window is closed and no
\* message with its identifier is on the way
Abandoned(i) ==
    /\ calls[i].pc = "wait"
    /\ ~popup[calls[i].cid].open
    /\ \A m \in BagToSet(msgs) : m.id # calls[i].cid

\* C15: a waiting call is changed by no step but the delivery of a message with its own
\* identifier, and a call whose window was closed with no such message on the way stays
\* waiting for ever: it is neither forwarded nor rejected.
C15_SuspendedForever ==
    [][\A i \in 1..MaxCalls :
          /\ (calls[i].pc = "wait" /\ \A m \in Delivered : m.id # calls[i].cid)
                => calls'[i] = calls[i]
          /\ Abandoned(i) => (Abandoned(i)' /\ calls'[i] = calls[i])]_vars

C15_Witness ==
    \E i, j \in Made :
        /\ Abandoned(i)
        /\ popup[calls[i].cid].clicks = 0
        /\ calls[i].orig = <<>>
        /\ calls[i].cb = <<>>
        /\ calls[j].verdict = "approve"

\* C16, as stated: a sendAsync call made with a request object and no callback is
\* forwarded to the original sendAsync with its own arguments and is never classified, so
\* no request is sent for it, whatever its method.
C16_NoCallbackForwarded ==
    \A i \in Made :
        (calls[i].entry = "sendAsync" /\ calls[i].args.form = "obj") =>
            /\ calls[i].orig = <<[fn |-> "sendAsync", obj |-> calls[i].obj,
                                  args |-> calls[i].args]>>
            /\ calls[i].kind = "none"
            /\ calls[i].netq = 0
            /\ RequestsOf(i) = {}

\* C17: a request for a Transaction or a TypedSignature is sent only after that call's one
\* network-info query has returned, and carries the chainId the query returned; a call
\* whose query has not returned has sent nothing; an UntypedSignature request is sent
\* with no network-info query and no chainId; no other call queries the network.
C17_NetworkQueryFirst ==
    /\ \A id \in 1..Len(sent) :
          LET c == calls[sent[id].call]
          IN  IF sent[id].type \in {"Transaction", "TypedSignature"}
              THEN /\ c.netq = 1
                   /\ c.chainId \in ChainIds
                   /\ sent[id].chainId = c.chainId
              ELSE /\ sent[id].type = "UntypedSignature"
                   /\ c.netq = 0
                   /\ sent[id].chainId = 0
    /\ \A i \in Made :
          /\ calls[i].pc = "net" => (calls[i].netq = 1 /\ RequestsOf(i) = {})
          /\ calls[i].netq <= 1
          /\ calls[i].netq = 1 => calls[i].kind \in {"Transaction", "TypedSignature"}
          /\ calls[i].kind \in {"Transaction", "TypedSignature"} => calls[i].netq = 1
          /\ calls[i].kind = "UntypedSignature" =>
                (calls[i].pc \in {"wait", "done"} /\ Cardinality(RequestsOf(i)) = 1)

C17_Witness ==
    \E id \in 1..Len(sent) :
        /\ sent[id].type = "TypedSignature"
        /\ sent[id].chainId = 5
        /\ calls[sent[id].call].handler = "request"
        /\ calls[sent[id].call].pc = "wait"

\* C18: of every provider object either none or all three of request, send and sendAsync
\* are wrapped, and an object that lacks an entry point has none wrapped, also after an
\* attachment step has failed on it.
C18_AllOrNothing ==
    \A o \in Objs :
        /\ depth[o] = NoDepth \/ \A e \in Entries : depth[o][e] >= 1
        /\ shape[o] # FullShape => depth[o] = NoDepth

C18_Witness ==
    /\ escaped = 1
    /\ attempts = 1
    /\ ethereum = 1
    /\ shape[1] = FullShape \ {"sendAsync"}
    /\ depth[1] = NoDepth

\* C19: a call whose network query failed is a Transaction or TypedSignature call, has no
\* request on the channel, never reached the original function and never invoked the
\* caller's callback; through requestHandler its promise fails, through sendAsyncHandler
\* nothing is reported to the caller.
C19_FailsClosed ==
    \A i \in Made :
        calls[i].error = "NetworkError" =>
            /\ calls[i].kind \in {"Transaction", "TypedSignature"}
            /\ calls[i].netq = 1
            /\ RequestsOf(i) = {}
            /\ calls[i].orig = <<>>
            /\ calls[i].cb = <<>>
            /\ calls[i].verdict = "none"
            /\ calls[i].pc = "done"
            /\ calls[i].handler = "request" => calls[i].result = "rejected"
            /\ calls[i].handler = "sendAsync" => calls[i].result = "unhandled"

C19_Witness ==
    \E i \in Made :
        /\ calls[i].error = "NetworkError"
        /\ calls[i].handler = "sendAsync"
        /\ calls[i].kind = "TypedSignature"
        /\ calls[i].result = "unhandled"

====
